---------------------------- MODULE Spec2Model ----------------------------
(***************************************************************************)
(* Backward-graph construction of paddle/framework/backward.cc.            *)
(*                                                                         *)
(* Variable names are strings, so that the suffix arithmetic of the code   *)
(* (GradVarName, the substr() that strips the gradient suffix, the         *)
(* "@RENAME@<uid>@<i>" aliases) is computed on the characters.             *)
(*                                                                         *)
(* An operator is a record                                                 *)
(*    [type, ins, outs, ops, isnet]                                        *)
(* ins/outs are the names of Inputs()/Outputs() in the order in which      *)
(* ForEachVarName enumerates them (slot after slot); ops are the children  *)
(* of a NetOp, or the one step-net of a recurrent / recurrent_grad         *)
(* operator; isnet is IsNetOp().                                           *)
(***************************************************************************)
EXTENDS Naturals, Sequences, FiniteSets, TLC

VARIABLES
  ops_,          \* the forward NetOp under construction (AppendOp)
  pc,            \* "build" | "backward" | "append_backward"
  root,          \* the operator handed to Backward / the block handed to AppendBackwardOps
  ngv,           \* the caller's no-grad variables (the argument no_grad_vars)
  result,        \* what Backward returned, with the post-state of no_grad_names and uniq_id
  rgraph,        \* step-wise recursion: the operator table (ids -> operator, children by id)
  rstack,        \* step-wise recursion: the active BackwardRecursive calls
  rset,          \* step-wise recursion: no_grad_names
  rstatus        \* step-wise recursion: "idle" | "running" | "returned" | "stack_overflow"

vars == <<ops_, pc, root, ngv, result, rgraph, rstack, rset, rstatus>>

mainVars == <<ops_, pc, root, ngv, result>>
recVars == <<rgraph, rstack, rset, rstatus>>

---------------------------------------------------------------------------
(* Bounds of the model.                                                    *)

\* total size of a forward graph: every name of every leaf, plus one per nested net
MaxSize == 6
\* names per side (inputs, outputs) of one forward leaf
MaxArgs == 2
\* nesting depth of nets / step-nets below the root
MaxDepth == 2
\* depth at which the machine stack of the step-wise recursion is exhausted
StackLimit == 6

InVars == {"a", "b"}
OutVars == {"b", "c"}
Vars == InVars \cup OutVars

---------------------------------------------------------------------------
(* Naming convention (framework constants used by backward.cc).            *)

kGradVarSuffix == "@GRAD"
kZeroVarSuffix == "@ZERO"
kEmptyVarName == "@EMPTY@"

GradVarName(name) == name \o kGradVarSuffix

Digit == <<"0", "1", "2", "3", "4", "5", "6", "7", "8", "9">>

RECURSIVE to_string(_)
to_string(n) ==
  IF n < 10 THEN Digit[n + 1] ELSE to_string(n \div 10) \o Digit[(n % 10) + 1]

\* lines 139-140: name + "@RENAME@" + std::to_string(uid) + "@" + std::to_string(i)
RenameAlias(name, uid, i) ==
  name \o "@RENAME@" \o to_string(uid) \o "@" \o to_string(i)

---------------------------------------------------------------------------
(* Sequence helpers.                                                       *)

RECURSIVE SetToSeq(_)
SetToSeq(S) ==
  IF S = {} THEN <<>>
  ELSE LET x == CHOOSE y \in S : TRUE IN <<x>> \o SetToSeq(S \ {x})

Reverse(s) == [i \in 1..Len(s) |-> s[Len(s) + 1 - i]]

Range(s) == {s[i] : i \in 1..Len(s)}

RECURSIVE Count(_, _)
Count(s, x) ==
  IF s = <<>> THEN 0 ELSE (IF Head(s) = x THEN 1 ELSE 0) + Count(Tail(s), x)

RECURSIVE SeqsUpTo(_, _)
\* the non-empty sequences over S of length at most n
SeqsUpTo(S, n) ==
  IF n = 0 THEN {}
  ELSE LET shorter == SeqsUpTo(S, n - 1)
       IN {<<x>> : x \in S} \cup {Append(s, x) : s \in shorter, x \in S}

---------------------------------------------------------------------------
(* The operator model consumed by backward.cc (OperatorBase, NetOp,        *)
(* OpRegistry).                                                            *)

Op(type, ins, outs, ops, isnet) ==
  [type |-> type, ins |-> ins, outs |-> outs, ops |-> ops, isnet |-> isnet]

\* OpRegistry::CreateOp(type, inputs, outputs, attrs)
CreateOp(type, ins, outs) == Op(type, ins, outs, <<>>, FALSE)

RECURSIVE NetInputSet(_, _, _)
\* NetOp::CompleteAddOp: a name a child reads that no earlier child wrote
NetInputSet(ops, i, written) ==
  IF i > Len(ops) THEN {}
  ELSE (Range(ops[i].ins) \ written)
         \cup NetInputSet(ops, i + 1, written \cup Range(ops[i].outs))

\* NetOp::CompleteAddOp: the inputs and outputs of a net, from its children
CompleteAddOp(type, ops) ==
  Op(type,
     SetToSeq(NetInputSet(ops, 1, {})),
     SetToSeq(UNION {Range(ops[i].outs) : i \in 1..Len(ops)}),
     ops, TRUE)

\* OperatorBase::Rename: old_name becomes new_name wherever the operator's
\* own input and output lists hold it
Rename(op, old_name, new_name) ==
  [op EXCEPT
     !.ins = [i \in 1..Len(op.ins) |->
                IF op.ins[i] = old_name THEN new_name ELSE op.ins[i]],
     !.outs = [i \in 1..Len(op.outs) |->
                 IF op.outs[i] = old_name THEN new_name ELSE op.outs[i]]]

\* NetOp::InsertOp(pos, op): ops_.insert(ops_.begin() + pos, op)
InsertOp(ops, pos, op) ==
  SubSeq(ops, 1, pos) \o <<op>> \o SubSeq(ops, pos + 1, Len(ops))

\* OpRegistry::CreateGradOp: reads the forward inputs, the forward outputs and
\* the gradients of the forward outputs; writes the gradients of the forward
\* inputs.  A recurrent_grad keeps a step-net slot, filled at lines 194-195.
CreateGradOp(fwd) ==
  Op(fwd.type \o "_grad",
     fwd.ins \o fwd.outs \o [i \in 1..Len(fwd.outs) |-> GradVarName(fwd.outs[i])],
     [i \in 1..Len(fwd.ins) |-> GradVarName(fwd.ins[i])],
     <<>>, FALSE)

---------------------------------------------------------------------------
(* backward.cc, the nested variant.                                        *)

RECURSIVE ForEachAllInSet(_, _, _, _, _)
\* lines 28-34 with the callback of lines 41-44: the scan stops at the first
\* name whose suffixed form is not in the set
ForEachAllInSet(names, suffix, set, i, all_in_set) ==
  IF i > Len(names) THEN all_in_set
  ELSE LET found == (names[i] \o suffix) \in set
       IN IF ~found THEN FALSE
          ELSE ForEachAllInSet(names, suffix, set, i + 1, found)

\* alternative to AllInSet: the names looked up without the suffix
AllInSetNoSuffix(names, suffix, set) == ForEachAllInSet(names, "", set, 1, TRUE)

\* lines 37-46
AllInSet(names, suffix, set) == ForEachAllInSet(names, suffix, set, 1, TRUE)

\* lines 48-53
NOP == CompleteAddOp("@NOP@", <<>>)

\* lines 250-252 (flat variant): no_grad_vars.insert(GradVarName(name)) for
\* every name of op_desc->Outputs()
InsertOutputGrads(forward, no_grad_names) ==
  no_grad_names \cup {GradVarName(forward.outs[i]) : i \in 1..Len(forward.outs)}

\* alternative to lines 83-87: nothing inserted
KeepNoGradNames(forward, no_grad_names) == no_grad_names

\* alternative to lines 83-87: the set replaced instead of extended
ReplaceByInputGrads(forward, no_grad_names) ==
  {GradVarName(forward.ins[i]) : i \in 1..Len(forward.ins)}

\* lines 83-87: no_grad_names.insert(GradVarName(name)) for every input name
InsertInputGrads(forward, no_grad_names) ==
  no_grad_names \cup {GradVarName(forward.ins[i]) : i \in 1..Len(forward.ins)}


Ret(op, no_grad_names, uniq_id, log) ==
  [op |-> op, no_grad_names |-> no_grad_names, uniq_id |-> uniq_id, log |-> log]

\* alternative to line 170: the name as it was when grad_input was bound
GradInputByValue(bound, element) == bound

\* line 170 reads grad_input, the reference that ForEachVarName (line 30,
\* auto& n) bound to the element of the gradient operator's input list; the
\* Rename of line 165 has rewritten that element by then.  bound is the name
\* the element held when the callback was entered, element what it holds now.
GradInputRead(bound, element) == element

RECURSIVE FillZeros(_, _, _, _)
\* lines 159-173, p the position of ForEachVarName in grad_op->Inputs()
FillZeros(grad_op, no_grad_names, p, aux) ==
  IF p > Len(grad_op.ins) THEN [grad_op |-> grad_op, aux |-> aux]
  ELSE LET grad_input == grad_op.ins[p] IN
       IF grad_input \in no_grad_names
       THEN LET prefix == SubSeq(grad_input, 1,
                                 Len(grad_input) - Len(kGradVarSuffix))
                renamed == Rename(grad_op, grad_input, prefix \o kZeroVarSuffix)
                fill == CreateOp("fill_zeros_like", <<prefix>>,
                                 <<GradInputRead(grad_input, renamed.ins[p])>>)
            IN FillZeros(renamed, no_grad_names, p + 1, Append(aux, fill))
       ELSE FillZeros(grad_op, no_grad_names, p + 1, aux)

RECURSIVE EmptyOutputs(_, _, _)
\* lines 175-181, p the position of ForEachVarName in grad_op->Outputs()
EmptyOutputs(grad_op, no_grad_names, p) ==
  IF p > Len(grad_op.outs) THEN grad_op
  ELSE LET grad_output == grad_op.outs[p] IN
       IF grad_output \in no_grad_names
       THEN EmptyOutputs(Rename(grad_op, grad_output, kEmptyVarName),
                         no_grad_names, p + 1)
       ELSE EmptyOutputs(grad_op, no_grad_names, p + 1)

\* the order of lines 104-105: rbegin() to rend()
ReverseOrder(n) == [i \in 1..n |-> n + 1 - i]

RECURSIVE WriterIds(_, _, _)
\* the local_op_ids pushed for one name by lines 108-112: one per occurrence
\* of the name in the outputs of each backward child, in visit order
WriterIds(bwds, name, j) ==
  IF j > Len(bwds) THEN <<>>
  ELSE [k \in 1..Count(bwds[j].outs, name) |-> j - 1] \o WriterIds(bwds, name, j + 1)

\* lines 100, 108-112
DupOutputOps(bwds) ==
  [name \in UNION {Range(bwds[j].outs) : j \in 1..Len(bwds)} |->
     WriterIds(bwds, name, 1)]

\* an iteration order of the unordered_map dup_output_ops (line 125): the
\* library fixes it, the program does not; h picks one of two
HashOrder(keys, h) == IF h THEN SetToSeq(keys) ELSE Reverse(SetToSeq(keys))

RECURSIVE RenameWriters(_, _, _, _, _)
\* lines 136-142
RenameWriters(ops, name, dup_op, dup_outputs, i) ==
  IF i > Len(dup_op) THEN ops
  ELSE LET op_offset == dup_op[i] IN
       RenameWriters(
         [ops EXCEPT ![op_offset + 1] = Rename(@, name, dup_outputs[i])],
         name, dup_op, dup_outputs, i + 1)

RECURSIVE ResolveDuplicates(_, _, _, _, _)
\* lines 125-147; st = [ops, insert_position, made]
ResolveDuplicates(keys, k, dup_output_ops, uid, st) ==
  IF k > Len(keys) THEN st
  ELSE LET name == keys[k]
           dup_op == dup_output_ops[name]
       IN IF name = kEmptyVarName \/ Len(dup_op) = 1
          THEN ResolveDuplicates(keys, k + 1, dup_output_ops, uid, st)
          ELSE LET dup_outputs ==
                     [i \in 1..Len(dup_op) |-> RenameAlias(name, uid, i - 1)]
               IN ResolveDuplicates(keys, k + 1, dup_output_ops, uid,
                    [ops |-> RenameWriters(st.ops, name, dup_op, dup_outputs, 1),
                     insert_position |->
                       Append(st.insert_position,
                              [first |-> dup_op[Len(dup_op)],
                               second |-> CreateOp("add", dup_outputs, <<name>>)]),
                     made |-> st.made \o
                       [i \in 1..Len(dup_op) |->
                          [name |-> name, i |-> i - 1, alias |-> dup_outputs[i]]]])

RECURSIVE SortedInsert(_, _)
\* one step of the stable list::sort of lines 150-151 (l.first > r.first):
\* pos goes behind every element that is not smaller
SortedInsert(sorted, pos) ==
  IF sorted = <<>> THEN <<pos>>
  ELSE IF pos.first > Head(sorted).first THEN <<pos>> \o sorted
       ELSE <<Head(sorted)>> \o SortedInsert(Tail(sorted), pos)

RECURSIVE SortDescending(_)
\* lines 150-151
SortDescending(insert_position) ==
  IF insert_position = <<>> THEN <<>>
  ELSE SortedInsert(
         SortDescending(SubSeq(insert_position, 1, Len(insert_position) - 1)),
         insert_position[Len(insert_position)])

\* line 154: net->InsertOp(pos.first + 1, std::move(pos.second))
InsertAfterWriter(ops, pos) == InsertOp(ops, pos.first + 1, pos.second)

RECURSIVE ApplyInsertions(_, _, _)
\* lines 153-155
ApplyInsertions(ops, insert_position, i) ==
  IF i > Len(insert_position) THEN ops
  ELSE ApplyInsertions(InsertAfterWriter(ops, insert_position[i]),
                       insert_position, i + 1)

\* alternative to line 116: the uid taken before the child loop
UidAtEntry(at_entry, after_children) == at_entry

\* line 116 stands behind the loop of lines 104-114: the composite takes the
\* value the counter has once all its children have been processed
UidOfComposite(at_entry, after_children) == after_children

\* alternative to line 116: the counter not advanced
SameUid(uid) == uid

\* line 116: the counter after auto uid = uniq_id++
NextUid(uid) == uid + 1

RECURSIVE BackwardRecursive(_, _, _, _)
RECURSIVE VisitChildren(_, _, _, _, _)

\* lines 104-114, for a visit order given as a sequence of child positions;
\* st = [bwds, no_grad_names, uniq_id, log]
VisitChildren(ops, order, i, st, h) ==
  IF i > Len(order) THEN st
  ELSE LET bwd == BackwardRecursive(ops[order[i]], st.no_grad_names,
                                    st.uniq_id, h)
       IN VisitChildren(ops, order, i + 1,
            [bwds |-> Append(st.bwds, bwd.op),
             no_grad_names |-> bwd.no_grad_names,
             uniq_id |-> bwd.uniq_id,
             log |-> st.log \o bwd.log], h)

\* lines 94-155 and 203-206
BackwardNet(forwardNet, no_grad_names, uniq_id, h) ==
  LET visited == VisitChildren(forwardNet.ops, ReverseOrder(Len(forwardNet.ops)), 1,
                   [bwds |-> <<>>, no_grad_names |-> no_grad_names,
                    uniq_id |-> uniq_id, log |-> <<>>], h)
      dup_output_ops == DupOutputOps(visited.bwds)
      uid == UidOfComposite(uniq_id, visited.uniq_id)
      resolved == ResolveDuplicates(HashOrder(DOMAIN dup_output_ops, h), 1,
                    dup_output_ops, uid,
                    [ops |-> visited.bwds, insert_position |-> <<>>, made |-> <<>>])
      net_ops == ApplyInsertions(resolved.ops,
                                 SortDescending(resolved.insert_position), 1)
  IN Ret(CompleteAddOp("@GENERATED_BACKWARD@", net_ops),
         visited.no_grad_names,
         NextUid(visited.uniq_id),
         Append(visited.log, [uid |-> uid, made |-> resolved.made]))

\* lines 157-206
BackwardLeaf(forwardOp, no_grad_names, uniq_id, h) ==
  LET zeroed == FillZeros(CreateGradOp(forwardOp), no_grad_names, 1, <<>>)
      emptied == EmptyOutputs(zeroed.grad_op, no_grad_names, 1)
      recurrent == forwardOp.type = "recurrent"
      step == BackwardRecursive(forwardOp.ops[1], no_grad_names, uniq_id, h)
      grad_op == IF recurrent THEN [emptied EXCEPT !.ops = <<step.op>>] ELSE emptied
      S == IF recurrent THEN step.no_grad_names ELSE no_grad_names
      u == IF recurrent THEN step.uniq_id ELSE uniq_id
      log == IF recurrent THEN step.log ELSE <<>>
  IN IF zeroed.aux = <<>>
     THEN Ret(grad_op, S, u, log)
     ELSE Ret(CompleteAddOp("@GENERATED_BACKWARD@", Append(zeroed.aux, grad_op)),
              S, u, log)

\* lines 67-207
BackwardRecursive(forwardOp, no_grad_names, uniq_id, h) ==
  IF AllInSet(forwardOp.ins, kGradVarSuffix, no_grad_names)
  THEN Ret(NOP, no_grad_names, uniq_id, <<>>)
  ELSE IF AllInSet(forwardOp.outs, kGradVarSuffix, no_grad_names)
  THEN Ret(NOP, InsertInputGrads(forwardOp, no_grad_names), uniq_id, <<>>)
  ELSE IF forwardOp.isnet
  THEN BackwardNet(forwardOp, no_grad_names, uniq_id, h)
  ELSE BackwardLeaf(forwardOp, no_grad_names, uniq_id, h)

\* lines 213-220
SeedNoGradNames(no_grad_vars) ==
  {kEmptyVarName \o kGradVarSuffix} \cup {name \o kGradVarSuffix : name \in no_grad_vars}

\* lines 210-223
Backward(forwardOp, no_grad_vars, h) ==
  BackwardRecursive(forwardOp, SeedNoGradNames(no_grad_vars), 0, h)

---------------------------------------------------------------------------
(* backward.cc, the flat variant.                                          *)

\* lines 227-235
AllGradInSet(names, set) ==
  \A i \in 1..Len(names) : GradVarName(names[i]) \in set

RECURSIVE FlatFillZeros(_, _, _, _, _)
\* lines 260-270; in_names is the vector InputArgumentNames() returned
FlatFillZeros(desc, in_names, no_grad_vars, p, fill_zeros_ops) ==
  IF p > Len(in_names) THEN [desc |-> desc, fill_zeros_ops |-> fill_zeros_ops]
  ELSE LET in_name == in_names[p] IN
       IF in_name \in no_grad_vars
       THEN LET prefix == SubSeq(in_name, 1, Len(in_name) - Len(kGradVarSuffix))
                new_name == prefix \o kZeroVarSuffix
            IN FlatFillZeros(Rename(desc, in_name, new_name), in_names,
                 no_grad_vars, p + 1,
                 Append(fill_zeros_ops,
                        CreateOp("fill_zeros_like", <<prefix>>, <<new_name>>)))
       ELSE FlatFillZeros(desc, in_names, no_grad_vars, p + 1, fill_zeros_ops)

RECURSIVE FlatEmptyOutputs(_, _, _, _)
\* lines 271-275
FlatEmptyOutputs(desc, out_names, no_grad_vars, p) ==
  IF p > Len(out_names) THEN desc
  ELSE IF out_names[p] \in no_grad_vars
       THEN FlatEmptyOutputs(Rename(desc, out_names[p], kEmptyVarName),
                             out_names, no_grad_vars, p + 1)
       ELSE FlatEmptyOutputs(desc, out_names, no_grad_vars, p + 1)

\* lines 237-282; returns the descriptors and the set it was handed by reference
CreatBackwardOps(op_desc, no_grad_vars) ==
  IF AllGradInSet(op_desc.ins, no_grad_vars)
  THEN [grad_op_descs |-> <<>>, no_grad_vars |-> no_grad_vars]
  ELSE IF AllGradInSet(op_desc.outs, no_grad_vars)
  THEN [grad_op_descs |-> <<>>,
        no_grad_vars |-> InsertOutputGrads(op_desc, no_grad_vars)]
  ELSE LET desc == CreateGradOp(op_desc)
           zeroed == FlatFillZeros(desc, desc.ins, no_grad_vars, 1, <<>>)
           emptied == FlatEmptyOutputs(zeroed.desc, zeroed.desc.outs,
                                       no_grad_vars, 1)
       IN [grad_op_descs |-> zeroed.fill_zeros_ops \o <<emptied>>,
           no_grad_vars |-> no_grad_vars]

RECURSIVE FlatVisit(_, _, _)
\* lines 290-299; st = [grad_op_descs, no_grad_vars, skipped], k the position
\* of the reverse iterator in the block
FlatVisit(op_descs, k, st) ==
  IF k = 0 THEN st
  ELSE LET op_grads == CreatBackwardOps(op_descs[k], st.no_grad_vars)
       IN FlatVisit(op_descs, k - 1,
            [grad_op_descs |-> st.grad_op_descs \o op_grads.grad_op_descs,
             no_grad_vars |-> op_grads.no_grad_vars,
             skipped |-> IF op_grads.grad_op_descs = <<>>
                         THEN st.skipped \cup {k} ELSE st.skipped])

RECURSIVE FlatResolve(_, _, _, _)
\* lines 302-317; st = [ops, pending_sum_ops]
FlatResolve(keys, k, dup_out_ops, st) ==
  IF k > Len(keys) THEN st
  ELSE LET out_name == keys[k]
           dup_op == dup_out_ops[out_name]
       IN IF out_name # kEmptyVarName /\ Len(dup_op) > 1
          THEN LET sum_op_inputs ==
                     [i \in 1..Len(dup_op) |->
                        out_name \o "@RENAME@" \o to_string(i - 1)]
               IN FlatResolve(keys, k + 1, dup_out_ops,
                    [ops |-> RenameWriters(st.ops, out_name, dup_op,
                                           sum_op_inputs, 1),
                     pending_sum_ops |->
                       Append(st.pending_sum_ops,
                              [first |-> dup_op[Len(dup_op)],
                               second |-> CreateOp("sum", sum_op_inputs,
                                                   <<out_name>>)])])
          ELSE FlatResolve(keys, k + 1, dup_out_ops, st)

\* lines 284-328
AppendBackwardOps(op_descs, no_grad_vars, h) ==
  LET visited == FlatVisit(op_descs, Len(op_descs),
                   [grad_op_descs |-> <<>>, no_grad_vars |-> no_grad_vars,
                    skipped |-> {}])
      dup_out_ops == DupOutputOps(visited.grad_op_descs)
      resolved == FlatResolve(HashOrder(DOMAIN dup_out_ops, h), 1, dup_out_ops,
                    [ops |-> visited.grad_op_descs, pending_sum_ops |-> <<>>])
  IN [grad_op_descs |-> ApplyInsertions(resolved.ops,
                          SortDescending(resolved.pending_sum_ops), 1),
      no_grad_vars |-> visited.no_grad_vars,
      skipped |-> visited.skipped]

---------------------------------------------------------------------------
(* Forward graphs.                                                         *)

\* a forward leaf of some registered kind
Leaf(ins, outs) == CreateOp("fc", ins, outs)

\* a forward NetOp over the given children, after NetOp::CompleteAddOp
NetOp(ops) == CompleteAddOp("plain_net", ops)

\* a RecurrentOp and the step-net rnnop.stepnet() returns (line 192)
RecurrentOp(ins, outs, stepnet) == Op("recurrent", ins, outs, <<stepnet>>, FALSE)

RECURSIVE Size(_)
RECURSIVE ListSize(_)
Size(op) ==
  (IF op.isnet THEN 1 ELSE Len(op.ins) + Len(op.outs)) + ListSize(op.ops)
ListSize(ops) == IF ops = <<>> THEN 0 ELSE Size(Head(ops)) + ListSize(Tail(ops))

RECURSIVE Depth(_)
RECURSIVE ListDepth(_)
Depth(op) == IF op.ops = <<>> /\ ~op.isnet THEN 0 ELSE 1 + ListDepth(op.ops)
ListDepth(ops) ==
  IF ops = <<>> THEN 0
  ELSE LET d == Depth(Head(ops))
           r == ListDepth(Tail(ops))
       IN IF d > r THEN d ELSE r

ArgLists(V) == SeqsUpTo(V, MaxArgs)

---------------------------------------------------------------------------
(* The state machine: a forward net is built, then differentiated.         *)

Idle == rgraph = <<>> /\ rstack = <<>> /\ rset = {} /\ rstatus = "idle"

Init ==
  /\ ops_ = <<>>
  /\ pc = "build"
  /\ root = <<>>
  /\ ngv = {}
  /\ result = <<>>
  /\ Idle

\* NetOp::AppendOp of a leaf
AppendOp ==
  /\ pc = "build"
  /\ \E ins \in ArgLists(InVars), outs \in ArgLists(OutVars) :
       /\ ListSize(ops_) + Len(ins) + Len(outs) <= MaxSize
       /\ ops_' = Append(ops_, Leaf(ins, outs))
  /\ UNCHANGED <<pc, root, ngv, result, recVars>>

\* the operators built so far become one nested NetOp, the first child
NestNet ==
  /\ pc = "build"
  /\ ops_ # <<>>
  /\ ListDepth(ops_) < MaxDepth
  /\ ListSize(ops_) + 1 <= MaxSize
  /\ ops_' = <<NetOp(ops_)>>
  /\ UNCHANGED <<pc, root, ngv, result, recVars>>

\* the operators built so far become the step-net of a RecurrentOp
NestRecurrent ==
  /\ pc = "build"
  /\ ops_ # <<>>
  /\ ListDepth(ops_) < MaxDepth
  /\ \E ins \in ArgLists(InVars), outs \in ArgLists(OutVars) :
       /\ ListSize(ops_) + 1 + Len(ins) + Len(outs) <= MaxSize
       /\ ops_' = <<RecurrentOp(ins, outs, NetOp(ops_))>>
  /\ UNCHANGED <<pc, root, ngv, result, recVars>>

\* Backward(forwardOp, no_grad_vars), on the net or on its only operator
CallBackward ==
  /\ pc = "build"
  /\ \E forwardOp \in {NetOp(ops_)} \cup (IF Len(ops_) = 1 THEN {ops_[1]} ELSE {}),
        no_grad_vars \in SUBSET Vars, h \in BOOLEAN :
       /\ root' = forwardOp
       /\ ngv' = no_grad_vars
       /\ result' = Backward(forwardOp, no_grad_vars, h)
  /\ pc' = "backward"
  /\ UNCHANGED <<ops_, recVars>>

\* AppendBackwardOps(block_desc, no_grad_vars) on a block of leaf descriptors;
\* the set it is handed holds gradient names
CallAppendBackwardOps ==
  /\ pc = "build"
  /\ \A i \in 1..Len(ops_) : ~ops_[i].isnet /\ ops_[i].ops = <<>>
  /\ \E no_grad_vars \in SUBSET Vars, h \in BOOLEAN :
       /\ ngv' = no_grad_vars
       /\ result' = AppendBackwardOps(ops_, SeedNoGradNames(no_grad_vars), h)
  /\ root' = ops_
  /\ pc' = "append_backward"
  /\ UNCHANGED <<ops_, recVars>>

Next ==
  \/ AppendOp
  \/ NestNet
  \/ NestRecurrent
  \/ CallBackward
  \/ CallAppendBackwardOps

Spec == Init /\ [][Next]_vars

---------------------------------------------------------------------------
(* The recursion of BackwardRecursive, call by call.                       *)
(*                                                                         *)
(* Operators are held in a table and name their children by id, as the     *)
(* NetOp and the RecurrentOp hold theirs by pointer: a step-net may hold   *)
(* the RecurrentOp it belongs to.  Only what steers the recursion is kept: *)
(* the call stack and no_grad_names.  A frame is [op, at, it]: at is       *)
(* "enter" (line 73), "loop" (lines 104-114, it children left), "stepnet"  *)
(* (line 194, before the call) or "stepret" (after it).                    *)

RecurrentId == 1
StepNetId == 2
LeafId == 3

UnitLists(V) == {<<x>> : x \in V}

\* the tables: a RecurrentOp, its step-net, and a leaf; the step-net's
\* children are drawn from the leaf and the RecurrentOp itself
Graphs ==
  {LET rec == RecurrentOp(ri, ro, StepNetId)
       leaf == Leaf(li, lo)
       table == <<rec, <<>>, leaf>>
       net == NetOp([k \in 1..Len(kids) |-> table[kids[k]]])
   IN <<rec, [net EXCEPT !.ops = kids], leaf>> :
     ri \in UnitLists(InVars), ro \in UnitLists(OutVars),
     li \in UnitLists(InVars), lo \in UnitLists(OutVars),
     kids \in SeqsUpTo({RecurrentId, LeafId}, 2)}

\* the step-net holds the RecurrentOp it is the step-net of
CyclicStepNet(graph) == RecurrentId \in Range(graph[StepNetId].ops)

InitRec ==
  /\ ops_ = <<>>
  /\ pc = "build"
  /\ root = <<>>
  /\ ngv = {}
  /\ result = <<>>
  /\ rgraph \in Graphs
  /\ \E no_grad_vars \in SUBSET Vars : rset = SeedNoGradNames(no_grad_vars)
  /\ \E id \in {RecurrentId, StepNetId} :
       rstack = <<[op |-> id, at |-> "enter", it |-> 0]>>
  /\ rstatus = "running"

Top == rstack[Len(rstack)]
TopOp == rgraph[Top.op]

Return ==
  /\ rstack' = SubSeq(rstack, 1, Len(rstack) - 1)
  /\ rstatus' = IF Len(rstack) = 1 THEN "returned" ELSE "running"

Call(id, at, it) ==
  /\ rstack' = Append([rstack EXCEPT ![Len(rstack)] = [@ EXCEPT !.at = at, !.it = it]],
                      [op |-> id, at |-> "enter", it |-> 0])
  /\ UNCHANGED <<rset, rstatus>>

Entered == rstatus = "running" /\ Top.at = "enter"

\* lines 73-76
RecNopInputs ==
  /\ Entered
  /\ AllInSet(TopOp.ins, kGradVarSuffix, rset)
  /\ Return
  /\ UNCHANGED <<rgraph, rset, mainVars>>

\* lines 81-89
RecNopOutputs ==
  /\ Entered
  /\ ~AllInSet(TopOp.ins, kGradVarSuffix, rset)
  /\ AllInSet(TopOp.outs, kGradVarSuffix, rset)
  /\ rset' = InsertInputGrads(TopOp, rset)
  /\ Return
  /\ UNCHANGED <<rgraph, mainVars>>

Synthesize ==
  /\ Entered
  /\ ~AllInSet(TopOp.ins, kGradVarSuffix, rset)
  /\ ~AllInSet(TopOp.outs, kGradVarSuffix, rset)

\* lines 94-104: the reverse iterator is set up
RecEnterNet ==
  /\ Synthesize
  /\ TopOp.isnet
  /\ rstack' = [rstack EXCEPT ![Len(rstack)] =
                  [@ EXCEPT !.at = "loop", !.it = Len(TopOp.ops)]]
  /\ UNCHANGED <<rgraph, rset, rstatus, mainVars>>

\* lines 157-181 and 198-206 for a leaf that is no RecurrentOp
RecLeaf ==
  /\ Synthesize
  /\ ~TopOp.isnet
  /\ TopOp.type # "recurrent"
  /\ Return
  /\ UNCHANGED <<rgraph, rset, mainVars>>

\* lines 157-192 for a RecurrentOp
RecEnterRecurrent ==
  /\ Synthesize
  /\ ~TopOp.isnet
  /\ TopOp.type = "recurrent"
  /\ rstack' = [rstack EXCEPT ![Len(rstack)] = [@ EXCEPT !.at = "stepnet"]]
  /\ UNCHANGED <<rgraph, rset, rstatus, mainVars>>

\* line 107
RecVisitChild ==
  /\ rstatus = "running"
  /\ Top.at = "loop"
  /\ Top.it >= 1
  /\ Len(rstack) < StackLimit
  /\ Call(TopOp.ops[Top.it], "loop", Top.it - 1)
  /\ UNCHANGED <<rgraph, mainVars>>

\* lines 115-155 and 203-206
RecLoopEnd ==
  /\ rstatus = "running"
  /\ Top.at = "loop"
  /\ Top.it = 0
  /\ Return
  /\ UNCHANGED <<rgraph, rset, mainVars>>

\* lines 194-195: the call
RecCallStepNet ==
  /\ rstatus = "running"
  /\ Top.at = "stepnet"
  /\ Len(rstack) < StackLimit
  /\ Call(TopOp.ops[1], "stepret", 0)
  /\ UNCHANGED <<rgraph, mainVars>>

\* lines 194-206: the call has returned
RecStepNetReturned ==
  /\ rstatus = "running"
  /\ Top.at = "stepret"
  /\ Return
  /\ UNCHANGED <<rgraph, rset, mainVars>>

\* a call of line 107 or 195 for which no stack is left
RecStackOverflow ==
  /\ rstatus = "running"
  /\ \/ Top.at = "loop" /\ Top.it >= 1
     \/ Top.at = "stepnet"
  /\ Len(rstack) = StackLimit
  /\ rstatus' = "stack_overflow"
  /\ UNCHANGED <<rgraph, rstack, rset, mainVars>>

NextRec ==
  \/ RecNopInputs
  \/ RecNopOutputs
  \/ RecEnterNet
  \/ RecLeaf
  \/ RecEnterRecurrent
  \/ RecVisitChild
  \/ RecLoopEnd
  \/ RecCallStepNet
  \/ RecStepNetReturned
  \/ RecStackOverflow

SpecRec == InitRec /\ [][NextRec]_vars

---------------------------------------------------------------------------
(* The claims.                                                             *)

Returned == pc = "backward"

\* the set Backward starts from, written out
Seeded == {"@EMPTY@@GRAD"} \cup {v \o "@GRAD" : v \in ngv}

NopValue ==
  [type |-> "@NOP@", ins |-> <<>>, outs |-> <<>>, ops |-> <<>>, isnet |-> TRUE]

AllInputGradsSeeded == \A i \in 1..Len(root.ins) : (root.ins[i] \o "@GRAD") \in Seeded
AllOutputGradsSeeded == \A i \in 1..Len(root.outs) : (root.outs[i] \o "@GRAD") \in Seeded

\* the root went past lines 73-89
Synthesized == Returned /\ ~AllInputGradsSeeded /\ ~AllOutputGradsSeeded

Perms(n) == {f \in [1..n -> 1..n] : \A i, j \in 1..n : f[i] = f[j] => i = j}

IsAdd(op) == op.type = "add"
NotAdd(op) == op.type # "add"

\* the children of the root as BackwardRecursive visits them, before the
\* duplicate-writer resolution
RootVisit(order) ==
  VisitChildren(root.ops, order, 1,
    [bwds |-> <<>>, no_grad_names |-> Seeded, uniq_id |-> 0, log |-> <<>>], TRUE)

RootUid == result.log[Len(result.log)].uid

(* C3: if the gradient of every output of the forward operator handed to   *)
(* Backward is in the no-grad set, the result is a single NOP and the set  *)
(* holds, after the call, the gradient of every input of the operator.     *)
C3_AllOutputsNoGrad ==
  (Returned /\ AllOutputGradsSeeded) =>
    /\ result.op = NopValue
    /\ \A i \in 1..Len(root.ins) :
         (root.ins[i] \o "@GRAD") \in result.no_grad_names

C3_Witness ==
  /\ Returned
  /\ root.isnet
  /\ root.outs # <<>>
  /\ AllOutputGradsSeeded
  /\ ~AllInputGradsSeeded
  /\ result.op = NopValue
  /\ result.no_grad_names # Seeded

(* C4: if the gradient of every input of the forward operator handed to    *)
(* Backward is in the no-grad set, the result is a single NOP without      *)
(* children, nothing was synthesized (no composite took a uid) and the     *)
(* no-grad set is as it was.                                               *)
C4_AllInputsNoGrad ==
  (Returned /\ AllInputGradsSeeded) =>
    /\ result.op = NopValue
    /\ result.no_grad_names = Seeded
    /\ result.uniq_id = 0
    /\ result.log = <<>>

C4_Witness ==
  /\ Returned
  /\ root.isnet
  /\ root.ins # <<>>
  /\ AllInputGradsSeeded
  /\ ~AllOutputGradsSeeded
  /\ result.op = NopValue

\* the names the gradient operator of the root leaf is created with
RootGradInputs ==
  Range(root.ins) \cup Range(root.outs)
    \cup {root.outs[i] \o "@GRAD" : i \in 1..Len(root.outs)}

(* C2: for a forward leaf whose gradient is synthesized, and every name g  *)
(* among the gradient operator's inputs that is in the no-grad set, the    *)
(* result is a composite whose last child is the gradient operator; a      *)
(* fill_zeros_like before it reads g without its gradient suffix and       *)
(* writes that name with the zero suffix, and the gradient operator reads  *)
(* the zero name and no longer g.                                          *)
C2_ZeroFill ==
  (Synthesized /\ ~root.isnet) =>
    \A g \in RootGradInputs \cap Seeded :
      LET x == SubSeq(g, 1, Len(g) - 5)
          zero == x \o "@ZERO"
          n == Len(result.op.ops)
      IN /\ result.op.isnet
         /\ result.op.type = "@GENERATED_BACKWARD@"
         /\ n >= 2
         /\ result.op.ops[n].type = root.type \o "_grad"
         /\ \E j \in 1..(n - 1) :
              /\ result.op.ops[j].type = "fill_zeros_like"
              /\ result.op.ops[j].ins = <<x>>
              /\ result.op.ops[j].outs = <<zero>>
         /\ zero \in Range(result.op.ops[n].ins)
         /\ g \notin Range(result.op.ops[n].ins)

C2_Witness ==
  /\ Synthesized
  /\ ~root.isnet
  /\ RootGradInputs \cap Seeded # {}
  /\ \E j \in 1..Len(result.op.ops) : result.op.ops[j].type = "fill_zeros_like"

\* every alias made during the call: <<position of the composite in the log, name, i>>
AliasKeys ==
  UNION {{<<c, m>> : m \in 1..Len(result.log[c].made)} : c \in 1..Len(result.log)}

AliasOf(key) == result.log[key[1]].made[key[2]].alias

(* C5: within one Backward call every composite that reaches the           *)
(* duplicate-writer resolution has a uid of its own, and no two aliases    *)
(* made for different (composite, name, position) are the same string.     *)
C5_AliasesUnique ==
  Returned =>
    /\ \A c, d \in 1..Len(result.log) :
         c # d => result.log[c].uid # result.log[d].uid
    /\ \A k1, k2 \in AliasKeys : k1 # k2 => AliasOf(k1) # AliasOf(k2)

C5_Witness ==
  /\ Returned
  /\ \E c, d \in 1..Len(result.log) :
       c # d /\ result.log[c].made # <<>> /\ result.log[d].made # <<>>

(* C7, as claimed: the aliases made at the root composite carry uid 0,     *)
(* whatever composites lie below the root.                                 *)
C7_RootUidZero ==
  (Synthesized /\ root.isnet) =>
    \A m \in 1..Len(result.log[Len(result.log)].made) :
      LET made == result.log[Len(result.log)].made[m]
      IN made.alias = made.name \o "@RENAME@0@" \o to_string(made.i)

(* C7, amended: a composite takes its uid after all its children have been *)
(* processed: the root's uid is the number of composites below it that     *)
(* took one, it is the last uid handed out, and the root's aliases carry   *)
(* it.                                                                     *)
C7_RootUidAfterChildren ==
  (Synthesized /\ root.isnet) =>
    /\ RootUid = Len(result.log) - 1
    /\ result.uniq_id = RootUid + 1
    /\ \A m \in 1..Len(result.log[Len(result.log)].made) :
         LET made == result.log[Len(result.log)].made[m]
         IN made.alias =
              made.name \o "@RENAME@" \o to_string(Len(result.log) - 1)
                \o "@" \o to_string(made.i)

C7_Witness ==
  /\ Synthesized
  /\ root.isnet
  /\ Len(result.log) >= 2
  /\ result.log[Len(result.log)].made # <<>>
  /\ RootUid = 1

(* C10, as claimed: the no-grad set only grows and ends the same in        *)
(* whatever order the children of the composite are visited.               *)
C10_OrderIndependent ==
  (Synthesized /\ root.isnet) =>
    /\ Seeded \subseteq result.no_grad_names
    /\ \A order \in Perms(Len(root.ops)) :
         RootVisit(order).no_grad_names = result.no_grad_names

(* C10, amended: the no-grad set only grows during a Backward call: the    *)
(* call ends with a superset of the set it started from, and in whatever   *)
(* order the children of a composite are visited, each visit leaves a      *)
(* superset of the set it found.                                           *)
C10_OnlyGrows ==
  Returned =>
    /\ Seeded \subseteq result.no_grad_names
    /\ (Synthesized /\ root.isnet) =>
         \A order \in Perms(Len(root.ops)) :
           \A k \in 1..Len(order) :
             RootVisit(SubSeq(order, 1, k - 1)).no_grad_names
               \subseteq RootVisit(SubSeq(order, 1, k)).no_grad_names

C10_Witness ==
  /\ Synthesized
  /\ root.isnet
  /\ Len(root.ops) >= 2
  /\ result.no_grad_names # Seeded
  /\ \E order \in Perms(Len(root.ops)) :
       RootVisit(order).no_grad_names # result.no_grad_names

Max(S) == CHOOSE x \in S : \A y \in S : y <= x

\* the p-th smallest element of a set of numbers
Nth(S, p) == CHOOSE x \in S : Cardinality({y \in S : y <= x}) = p

RECURSIVE OpsBelow(_)
\* an operator and every operator below it (children, step-nets)
OpsBelow(op) == {op} \cup UNION {OpsBelow(op.ops[i]) : i \in 1..Len(op.ops)}

(* C1: for a forward composite and every gradient name other than the      *)
(* empty name that k >= 2 of the children's backward operators write, the  *)
(* backward composite holds exactly one add operator whose output is that  *)
(* name; its inputs are the k aliases name@RENAME@uid@0 .. k-1, the p-th   *)
(* written by the p-th writer, and after all insertions it stands behind   *)
(* the last writer and before the child that followed the last writer.     *)
C1_AccumulatePlacement ==
  (Synthesized /\ root.isnet) =>
    LET bwds == RootVisit(ReverseOrder(Len(root.ops))).bwds
        n == Len(bwds)
        final == result.op.ops
        kept == SelectSeq(final, NotAdd)
        names == UNION {Range(bwds[j].outs) : j \in 1..n} \ {"@EMPTY@"}
    IN /\ Len(kept) = n
       /\ \A name \in names :
            LET W == {j \in 1..n : name \in Range(bwds[j].outs)}
                k == Cardinality(W)
                adds == {i \in 1..Len(final) :
                           IsAdd(final[i]) /\ final[i].outs = <<name>>}
            IN k >= 2 =>
                 /\ Cardinality(adds) = 1
                 /\ \A i \in adds :
                      /\ final[i].ins =
                           [p \in 1..k |->
                              name \o "@RENAME@" \o to_string(RootUid)
                                \o "@" \o to_string(p - 1)]
                      /\ \A p \in 1..k :
                           final[i].ins[p] \in Range(kept[Nth(W, p)].outs)
                      /\ Len(SelectSeq(SubSeq(final, 1, i - 1), NotAdd)) = Max(W)

(* C6: in every backward composite every alias an add operator reads is    *)
(* written by exactly one child of that composite, which stands before the *)
(* add operator, and is read exactly once, by that add operator.           *)
C6_AliasWrittenOnceReadOnce ==
  Returned =>
    \A net \in {op \in OpsBelow(result.op) : op.isnet} :
      \A j \in 1..Len(net.ops) :
        IsAdd(net.ops[j]) =>
          \A p \in 1..Len(net.ops[j].ins) :
            LET alias == net.ops[j].ins[p]
                writers == {i \in 1..Len(net.ops) : alias \in Range(net.ops[i].outs)}
                readers == {i \in 1..Len(net.ops) : alias \in Range(net.ops[i].ins)}
            IN /\ Cardinality(writers) = 1
               /\ \A i \in writers : i < j
               /\ readers = {j}
               /\ Count(net.ops[j].ins, alias) = 1

(* C9: the flat variant propagates no-grad names as the nested variant     *)
(* does: on the same list of leaves and the same initial set both end with *)
(* the same no-grad set and skip the same operators.                       *)
C9_FlatMatchesNested ==
  pc = "append_backward" =>
    LET n == Len(root)
        nested == VisitChildren(root, ReverseOrder(n), 1,
                    [bwds |-> <<>>, no_grad_names |-> Seeded, uniq_id |-> 0,
                     log |-> <<>>], TRUE)
    IN /\ result.no_grad_vars = nested.no_grad_names
       /\ result.skipped = {k \in 1..n : nested.bwds[n + 1 - k] = NopValue}

(* C8: Backward does not recurse until the stack is exhausted: a step-net  *)
(* that holds its own RecurrentOp ends the call with CyclicStepNet.        *)
C8_CyclicStepNetFails == rstatus # "stack_overflow"

=============================================================================
